---- MODULE Spec2Model ----
(***************************************************************************)
(* Model of the VoteSmart contract (src/contract/src/lib.rs): a single     *)
(* master account curates five UnorderedMap tables and one LookupMap of    *)
(* recommendations; everybody may page through the tables and resolve a    *)
(* recommendation.  One action per exposed method; a call is atomic (the   *)
(* host runs one call at a time and a panic reverts the call's writes).    *)
(***************************************************************************)
EXTENDS Integers, Sequences, FiniteSets, TLC

VARIABLES
    master_account_id,  \* VoteSmart.master_account_id
    storage,            \* the persistent collections, by storage prefix
    last                \* the last call: method, caller, outcome

vars == <<master_account_id, storage, last>>

----------------------------------------------------------------------------
(* Bounds of the model.                                                    *)

MaxId == 2          \* identifiers are 1..MaxId
MaxBatch == 2       \* a bulk add carries at most MaxBatch entries
MaxIndex == 2       \* from_index and limit are None or 0..MaxIndex
MaxTotal == 2       \* entries stored over all collections (Spec, SpecAdmin)
MaxJoin == 3        \* entries stored over all collections (SpecJoin)

Ids == 1..MaxId
Accounts == {"alice.near", "bob.near"}
Titles == {"A", "B"}

----------------------------------------------------------------------------
(* Option<T>: None is the empty sequence, Some(x) the sequence <<x>>.      *)

None == <<>>
Some(x) == <<x>>
unwrap_or(o, d) == IF o = None THEN d ELSE o[1]

OptIndex == {None} \cup {Some(i) : i \in 0..MaxIndex}

(* The entity values (lines 21-59).                                        *)
Region == [title : Titles]
District == [region_id : Ids, title : {"D"}]
Candidate == {[title |-> "Alice", party_id |-> 1], [title |-> "Bob", party_id |-> 2]}
RecommendationIndex == [campaign_id : Ids, district_id : Ids]

(* The sequences of at most MaxBatch entries over S (a Vec argument).      *)
Vec(S) == UNION {[1..n -> S] : n \in 0..MaxBatch}

----------------------------------------------------------------------------
(* StorageKey: the prefix of each persistent collection (borsh encodes the *)
(* enum variant as its ordinal).                                           *)

StorageKey_Parties == 0
StorageKey_Campaigns == 1
StorageKey_Regions == 2
StorageKey_Districts == 3
(* Two collections under one prefix.                                       *)
StorageKey_Candidates_shared == StorageKey_Parties

StorageKey_Candidates == 4
StorageKey_Recommendations == 5

UnorderedMapPrefixes ==
    {StorageKey_Parties, StorageKey_Campaigns, StorageKey_Regions,
     StorageKey_Districts, StorageKey_Candidates}

(* The collections of the contract, read through their prefixes.           *)
parties == storage[StorageKey_Parties]
campaigns == storage[StorageKey_Campaigns]
regions == storage[StorageKey_Regions]
districts == storage[StorageKey_Districts]
candidates == storage[StorageKey_Candidates]
recommendations == storage[StorageKey_Recommendations]

----------------------------------------------------------------------------
(* near_sdk::collections::UnorderedMap: a key -> index map, a vector of    *)
(* keys and a vector of values, the two vectors aligned.  Indices are      *)
(* 0-based as in the code; TLA+ sequences are 1-based.                     *)

UnorderedMap_new == [index |-> <<>>, keys |-> <<>>, values |-> <<>>]

(* insert that pushes without consulting the index.                        *)
UnorderedMap_insert_push(m, k, v) ==
    [index |-> [x \in DOMAIN m.index \cup {k} |-> IF x = k THEN Len(m.keys) ELSE m.index[x]],
     keys |-> Append(m.keys, k),
     values |-> Append(m.values, v)]

(* insert that keeps the stored value of a key already present.            *)
UnorderedMap_insert_keep(m, k, v) ==
    IF k \in DOMAIN m.index
    THEN m
    ELSE [index |-> m.index @@ (k :> Len(m.keys)),
          keys |-> Append(m.keys, k),
          values |-> Append(m.values, v)]

(* insert that moves a key already present to the end of the vectors.      *)
UnorderedMap_insert_move(m, k, v) ==
    LET Other(i) == m.keys[i] # k
        kept == SelectSeq([i \in 1..Len(m.keys) |-> i], Other)
        keys == [i \in 1..Len(kept) |-> m.keys[kept[i]]] \o <<k>>
        values == [i \in 1..Len(kept) |-> m.values[kept[i]]] \o <<v>>
    IN [index |-> [x \in {keys[i] : i \in 1..Len(keys)} |->
                      (CHOOSE i \in 1..Len(keys) : keys[i] = x) - 1],
        keys |-> keys,
        values |-> values]

(* insert that starts the vectors afresh for a new key.                    *)
UnorderedMap_insert_reset(m, k, v) ==
    IF k \in DOMAIN m.index
    THEN [m EXCEPT !.values[m.index[k] + 1] = v]
    ELSE [index |-> (k :> 0), keys |-> <<k>>, values |-> <<v>>]

UnorderedMap_insert(m, k, v) ==
    IF k \in DOMAIN m.index
    THEN [m EXCEPT !.values[m.index[k] + 1] = v]
    ELSE [index |-> m.index @@ (k :> Len(m.keys)),
          keys |-> Append(m.keys, k),
          values |-> Append(m.values, v)]

UnorderedMap_get(m, k) ==
    IF k \in DOMAIN m.index THEN Some(m.values[m.index[k] + 1]) ELSE None

(* near_sdk::collections::LookupMap: a key -> value map, no iteration.     *)
LookupMap_new == [map |-> <<>>]

(* The insert that keeps the value of a key already present.               *)
LookupMap_insert_keep(m, k, v) ==
    IF k \in DOMAIN m.map THEN m ELSE [map |-> m.map @@ (k :> v)]

LookupMap_insert(m, k, v) ==
    [map |-> [x \in DOMAIN m.map \cup {k} |-> IF x = k THEN v ELSE m.map[x]]]

LookupMap_get(m, k) ==
    IF k \in DOMAIN m.map THEN Some(m.map[k]) ELSE None

(* The loop that takes the entries of the batch from the last to the first. *)
RECURSIVE InsertEach_reverse(_, _)
InsertEach_reverse(m, batch) ==
    IF batch = <<>> THEN m
    ELSE UnorderedMap_insert(InsertEach_reverse(m, Tail(batch)),
                             Head(batch)[1], Head(batch)[2])

(* `for data in batch { m.insert(&data.0, &data.1) }`                      *)
RECURSIVE InsertEach(_, _)
InsertEach(m, batch) ==
    IF batch = <<>> THEN m
    ELSE InsertEach(UnorderedMap_insert(m, Head(batch)[1], Head(batch)[2]), Tail(batch))

(* The loop of add_recommendations.                                        *)
RECURSIVE InsertEachRecommendation(_, _)
InsertEachRecommendation(m, batch) ==
    IF batch = <<>> THEN m
    ELSE LET data == Head(batch)
             campaign_id == data[1]
             district_id == data[2]
             candidate_id == data[3]
         IN InsertEachRecommendation(
                LookupMap_insert(m, [campaign_id |-> campaign_id,
                                     district_id |-> district_id], candidate_id),
                Tail(batch))

----------------------------------------------------------------------------
(* The read methods, as functions of the state.                            *)

Min(a, b) == IF a < b THEN a ELSE b

(* The Rust range lo..hi: lo, lo+1, ..., hi-1; empty when lo >= hi.        *)
Range(lo, hi) == [i \in 1..(IF hi > lo THEN hi - lo ELSE 0) |-> lo + i - 1]

(* The pagination that takes limit as the last index of the page.          *)
unordered_map_pagination_inclusive(m, from_index, limit) ==
    LET keys == m.keys
        values == m.values
        from == unwrap_or(from_index, 0)
        lim == unwrap_or(limit, Len(keys))
        indices == Range(from, Min(Len(keys), lim + 1))
    IN [i \in 1..Len(indices) |->
            LET index == indices[i] IN <<keys[index + 1], values[index + 1]>>]

(* The pagination with a cursor: without from_index, a page starts after    *)
(* as many entries as the call before returned.                            *)
unordered_map_pagination_cursor(m, from_index, limit) ==
    LET keys == m.keys
        values == m.values
        from == unwrap_or(from_index, Len(last.ret))
        lim == unwrap_or(limit, Len(keys))
        indices == Range(from, Min(Len(keys), lim))
    IN [i \in 1..Len(indices) |->
            LET index == indices[i] IN <<keys[index + 1], values[index + 1]>>]

(* limit taken as a number of items.                                       *)
unordered_map_pagination_count(m, from_index, limit) ==
    LET keys == m.keys
        values == m.values
        from == unwrap_or(from_index, 0)
        lim == unwrap_or(limit, Len(keys))
        indices == Range(from, Min(Len(keys), from + lim))
    IN [i \in 1..Len(indices) |->
            LET index == indices[i] IN <<keys[index + 1], values[index + 1]>>]

unordered_map_pagination(m, from_index, limit) ==
    LET keys == m.keys
        values == m.values
        from == unwrap_or(from_index, 0)
        lim == unwrap_or(limit, Len(keys))
        indices == Range(from, Min(Len(keys), lim))
    IN [i \in 1..Len(indices) |->
            LET index == indices[i] IN <<keys[index + 1], values[index + 1]>>]

get_campaigns_result(from_index, limit) == unordered_map_pagination(campaigns, from_index, limit)
get_parties_result(from_index, limit) == unordered_map_pagination(parties, from_index, limit)
get_regions_result(from_index, limit) == unordered_map_pagination(regions, from_index, limit)
get_districts_result(from_index, limit) == unordered_map_pagination(districts, from_index, limit)
get_candidates_result(from_index, limit) == unordered_map_pagination(candidates, from_index, limit)

(* The filter first, the window on the filtered districts.                 *)
get_districts_by_region_result_filter_first(region_id, from_index, limit) ==
    LET keys == districts.keys
        values == districts.values
        Matches(index) == values[index + 1].region_id = region_id
        matching == SelectSeq(Range(0, Len(keys)), Matches)
        from == unwrap_or(from_index, 0)
        lim == unwrap_or(limit, Len(matching))
        positions == Range(from, Min(Len(matching), lim))
    IN [i \in 1..Len(positions) |->
            LET index == matching[positions[i] + 1]
            IN <<keys[index + 1], values[index + 1]>>]

get_districts_by_region_result(region_id, from_index, limit) ==
    LET keys == districts.keys
        values == districts.values
        from == unwrap_or(from_index, 0)
        lim == unwrap_or(limit, Len(keys))
        Matches(index) == values[index + 1].region_id = region_id
        indices == SelectSeq(Range(from, Min(Len(keys), lim)), Matches)
    IN [i \in 1..Len(indices) |->
            LET index == indices[i] IN <<keys[index + 1], values[index + 1]>>]

(* The resolver that takes the pair as unordered: without an entry for the *)
(* pair it looks the swapped pair up.                                      *)
get_votesmart_result_unordered(campaign_id, district_id) ==
    LET direct ==
            LookupMap_get(recommendations,
                          [campaign_id |-> campaign_id, district_id |-> district_id])
        candidate_id ==
            IF direct # None THEN direct
            ELSE LookupMap_get(recommendations,
                               [campaign_id |-> district_id, district_id |-> campaign_id])
    IN IF candidate_id # None
       THEN LET candidate == UnorderedMap_get(candidates, candidate_id[1])
            IN IF candidate # None
               THEN Some([title |-> candidate[1].title,
                          party |-> unwrap_or(
                              UnorderedMap_get(parties, candidate[1].party_id),
                              "Unknown")])
               ELSE None
       ELSE None

(* A missing party treated like a missing candidate.                       *)
get_votesmart_result_strict(campaign_id, district_id) ==
    LET candidate_id ==
            LookupMap_get(recommendations,
                          [campaign_id |-> campaign_id, district_id |-> district_id])
    IN IF candidate_id # None
       THEN LET candidate == UnorderedMap_get(candidates, candidate_id[1])
            IN IF candidate # None /\ UnorderedMap_get(parties, candidate[1].party_id) # None
               THEN Some([title |-> candidate[1].title,
                          party |-> UnorderedMap_get(parties, candidate[1].party_id)[1]])
               ELSE None
       ELSE None

get_votesmart_result(campaign_id, district_id) ==
    LET candidate_id ==
            LookupMap_get(recommendations,
                          [campaign_id |-> campaign_id, district_id |-> district_id])
    IN IF candidate_id # None
       THEN LET candidate == UnorderedMap_get(candidates, candidate_id[1])
            IN IF candidate # None
               THEN Some([title |-> candidate[1].title,
                          party |-> unwrap_or(
                              UnorderedMap_get(parties, candidate[1].party_id),
                              "Unknown")])
               ELSE None
       ELSE None

----------------------------------------------------------------------------
(* The calls.  `last` records the method, the caller (the predecessor       *)
(* account) and the outcome: err is "" for a call that returned and the    *)
(* panic message for one that panicked, ret is the value returned.         *)

NoError == ""
Unauthorized == "No access"

Call(op, caller, err, ret) ==
    [op |-> op, caller |-> caller, err |-> err, ret |-> ret]

(* The guard left out: every caller passes.                                *)
assert_access_anyone(caller) == caller \in Accounts

(* assert_access: the caller is the master account.                        *)
assert_access(caller) == caller = master_account_id

(* A panic: the host discards the call's writes.                           *)
Panic(op, caller) ==
    /\ last' = Call(op, caller, Unauthorized, None)
    /\ UNCHANGED <<master_account_id, storage>>

(* A mutating call that returns: the contract state is written back.       *)
Return(op, caller) == last' = Call(op, caller, NoError, None)

(* A view call: it returns ret and writes nothing.                         *)
View(op, caller, ret) ==
    /\ last' = Call(op, caller, NoError, ret)
    /\ UNCHANGED <<master_account_id, storage>>

(* #[init] new: admin_id when given, else the predecessor account.         *)
(* The construction that makes the creating account the master account    *)
(* whatever admin_id is.                                                   *)
new_ignoring_admin(predecessor, admin_id) ==
    /\ master_account_id = predecessor
    /\ storage = [p \in UnorderedMapPrefixes \cup {StorageKey_Recommendations} |->
                    IF p = StorageKey_Recommendations THEN LookupMap_new ELSE UnorderedMap_new]
    /\ last = Call("new", predecessor, NoError, None)

new(predecessor, admin_id) ==
    /\ master_account_id = unwrap_or(admin_id, predecessor)
    /\ storage = [p \in UnorderedMapPrefixes \cup {StorageKey_Recommendations} |->
                    IF p = StorageKey_Recommendations
                    THEN LookupMap_new ELSE UnorderedMap_new]
    /\ last = Call("new", predecessor, NoError, None)

Init ==
    \E predecessor \in Accounts :
        \E admin_id \in {None} \cup {Some(a) : a \in Accounts} :
            new(predecessor, admin_id)

(* The setter without its guard.                                           *)
set_master_account_id_unguarded(caller, admin_id) ==
    /\ master_account_id' = admin_id
    /\ UNCHANGED storage
    /\ Return("set_master_account_id", caller)

(* The hand-over that checks the caller and then keeps the master account. *)
set_master_account_id_kept(caller, admin_id) ==
    IF ~assert_access(caller)
    THEN Panic("set_master_account_id", caller)
    ELSE /\ UNCHANGED <<master_account_id, storage>>
         /\ Return("set_master_account_id", caller)

set_master_account_id(caller, admin_id) ==
    IF ~assert_access(caller)
    THEN Panic("set_master_account_id", caller)
    ELSE /\ master_account_id' = admin_id
         /\ UNCHANGED storage
         /\ Return("set_master_account_id", caller)

add_campaign(caller, id, title) ==
    IF ~assert_access(caller)
    THEN Panic("add_campaign", caller)
    ELSE /\ storage' = [storage EXCEPT ![StorageKey_Campaigns] =
                            UnorderedMap_insert(@, id, title)]
         /\ UNCHANGED master_account_id
         /\ Return("add_campaign", caller)

add_parties(caller, batch) ==
    IF ~assert_access(caller)
    THEN Panic("add_parties", caller)
    ELSE /\ storage' = [storage EXCEPT ![StorageKey_Parties] = InsertEach(@, batch)]
         /\ UNCHANGED master_account_id
         /\ Return("add_parties", caller)

add_regions(caller, batch) ==
    IF ~assert_access(caller)
    THEN Panic("add_regions", caller)
    ELSE /\ storage' = [storage EXCEPT ![StorageKey_Regions] = InsertEach(@, batch)]
         /\ UNCHANGED master_account_id
         /\ Return("add_regions", caller)

(* The bulk add of districts that refuses a district whose region is not   *)
(* stored.                                                                 *)
add_districts_checked(caller, batch) ==
    IF \/ ~assert_access(caller)
       \/ \E i \in 1..Len(batch) : batch[i][2].region_id \notin DOMAIN regions.index
    THEN Panic("add_districts", caller)
    ELSE /\ storage' = [storage EXCEPT ![StorageKey_Districts] = InsertEach(@, batch)]
         /\ UNCHANGED master_account_id
         /\ Return("add_districts", caller)

add_districts(caller, batch) ==
    IF ~assert_access(caller)
    THEN Panic("add_districts", caller)
    ELSE /\ storage' = [storage EXCEPT ![StorageKey_Districts] = InsertEach(@, batch)]
         /\ UNCHANGED master_account_id
         /\ Return("add_districts", caller)

add_candidates(caller, batch) ==
    IF ~assert_access(caller)
    THEN Panic("add_candidates", caller)
    ELSE /\ storage' = [storage EXCEPT ![StorageKey_Candidates] = InsertEach(@, batch)]
         /\ UNCHANGED master_account_id
         /\ Return("add_candidates", caller)

add_recommendations(caller, batch) ==
    IF ~assert_access(caller)
    THEN Panic("add_recommendations", caller)
    ELSE /\ storage' = [storage EXCEPT ![StorageKey_Recommendations] =
                            InsertEachRecommendation(@, batch)]
         /\ UNCHANGED master_account_id
         /\ Return("add_recommendations", caller)

get_campaigns(caller, from_index, limit) ==
    View("get_campaigns", caller, get_campaigns_result(from_index, limit))

get_parties(caller, from_index, limit) ==
    View("get_parties", caller, get_parties_result(from_index, limit))

get_regions(caller, from_index, limit) ==
    View("get_regions", caller, get_regions_result(from_index, limit))

get_districts(caller, from_index, limit) ==
    View("get_districts", caller, get_districts_result(from_index, limit))

get_candidates(caller, from_index, limit) ==
    View("get_candidates", caller, get_candidates_result(from_index, limit))

get_districts_by_region(caller, region_id, from_index, limit) ==
    View("get_districts_by_region", caller,
         get_districts_by_region_result(region_id, from_index, limit))

(* The read behind the guard of the mutating methods.                      *)
get_votesmart_guarded(caller, campaign_id, district_id) ==
    IF ~assert_access(caller)
    THEN Panic("get_votesmart", caller)
    ELSE View("get_votesmart", caller, get_votesmart_result(campaign_id, district_id))

get_votesmart(caller, campaign_id, district_id) ==
    View("get_votesmart", caller, get_votesmart_result(campaign_id, district_id))

----------------------------------------------------------------------------
(* The number of stored entries, which the specifications bound.           *)

TotalEntries(st) ==
    Len(st[StorageKey_Parties].keys) + Len(st[StorageKey_Campaigns].keys)
    + Len(st[StorageKey_Regions].keys) + Len(st[StorageKey_Districts].keys)
    + Len(st[StorageKey_Candidates].keys)
    + Cardinality(DOMAIN st[StorageKey_Recommendations].map)

(* A bulk add is taken while the stored entries stay within cap.           *)
Within(cap) == TotalEntries(storage') <= cap

(* The mutating methods, called by caller with any arguments.              *)
Mutations(caller, cap) ==
    \/ \E admin_id \in Accounts : set_master_account_id(caller, admin_id)
    \/ \E id \in Ids, title \in Titles : add_campaign(caller, id, title) /\ Within(cap)
    \/ \E batch \in Vec(Ids \X Titles) : add_parties(caller, batch) /\ Within(cap)
    \/ \E batch \in Vec(Ids \X Region) : add_regions(caller, batch) /\ Within(cap)
    \/ \E batch \in Vec(Ids \X District) : add_districts(caller, batch) /\ Within(cap)
    \/ \E batch \in Vec(Ids \X Candidate) : add_candidates(caller, batch) /\ Within(cap)
    \/ \E batch \in Vec(Ids \X Ids \X Ids) :
          add_recommendations(caller, batch) /\ Within(cap)

(* The read methods, called by caller with any arguments.                  *)
Views(caller) ==
    \/ \E f \in OptIndex, l \in OptIndex : get_campaigns(caller, f, l)
    \/ \E f \in OptIndex, l \in OptIndex : get_parties(caller, f, l)
    \/ \E f \in OptIndex, l \in OptIndex : get_regions(caller, f, l)
    \/ \E f \in OptIndex, l \in OptIndex : get_districts(caller, f, l)
    \/ \E f \in OptIndex, l \in OptIndex : get_candidates(caller, f, l)
    \/ \E r \in Ids, f \in OptIndex, l \in OptIndex :
          get_districts_by_region(caller, r, f, l)
    \/ \E c \in Ids, d \in Ids : get_votesmart(caller, c, d)

(* Every method, called by any account.                                    *)
Next == \E caller \in Accounts : Mutations(caller, MaxTotal) \/ Views(caller)

Spec == Init /\ [][Next]_vars

(* The mutating methods alone.                                             *)
NextAdmin == \E caller \in Accounts : Mutations(caller, MaxTotal)

SpecAdmin == Init /\ [][NextAdmin]_vars

(* The methods the recommendation resolver depends on: a recommendation,   *)
(* its candidate and the candidate's party take three entries.             *)
NextJoin ==
    \E caller \in Accounts :
        \/ \E batch \in Vec(Ids \X Titles) : add_parties(caller, batch) /\ Within(MaxJoin)
        \/ \E batch \in Vec(Ids \X Candidate) :
              add_candidates(caller, batch) /\ Within(MaxJoin)
        \/ \E batch \in Vec(Ids \X Ids \X Ids) :
              add_recommendations(caller, batch) /\ Within(MaxJoin)
        \/ \E c \in Ids, d \in Ids : get_votesmart(caller, c, d)

SpecJoin == Init /\ [][NextJoin]_vars

----------------------------------------------------------------------------
(* Vocabulary of the properties.                                           *)

MutatingOps ==
    {"set_master_account_id", "add_campaign", "add_parties", "add_regions",
     "add_districts", "add_candidates", "add_recommendations"}

ListOps ==
    {"get_campaigns", "get_parties", "get_regions", "get_districts", "get_candidates"}

ReadOps == ListOps \cup {"get_districts_by_region", "get_votesmart"}

KeySet(m) == {m.keys[i] : i \in 1..Len(m.keys)}
Count(s, x) == Cardinality({i \in 1..Len(s) : s[i] = x})
HasKey(m, id) == \E i \in 1..Len(m.keys) : m.keys[i] = id
ValueAt(m, id) == m.values[CHOOSE i \in 1..Len(m.keys) : m.keys[i] = id]

----------------------------------------------------------------------------
(* C1: a mutating call by an account other than the master account fails   *)
(* with Unauthorized and leaves the master account and the whole storage   *)
(* (every table with its order and index, and the recommendations) as they *)
(* were.                                                                   *)
C1_UnauthorizedRejected ==
    [][(last'.op \in MutatingOps /\ last'.caller # master_account_id)
        => /\ last'.err = Unauthorized
           /\ master_account_id' = master_account_id
           /\ storage' = storage]_vars

(* A rejected call on a registry that already holds entries.               *)
C1_Witness ==
    /\ last.op = "add_recommendations"
    /\ last.err = Unauthorized
    /\ last.caller # master_account_id
    /\ TotalEntries(storage) > 0

----------------------------------------------------------------------------
(* C2: get_votesmart returns nothing when the recommendations hold no      *)
(* entry for the pair, nothing when the entry's candidate is not stored,   *)
(* the candidate's title with "Unknown" when the candidate's party is not  *)
(* stored, and the candidate's title with the party's title otherwise; a   *)
(* get_votesmart call returns such a result.                               *)
Resolved(campaign_id, district_id) ==
    LET key == [campaign_id |-> campaign_id, district_id |-> district_id]
    IN IF key \notin DOMAIN recommendations.map
       THEN None
       ELSE IF ~HasKey(candidates, recommendations.map[key])
       THEN None
       ELSE LET candidate == ValueAt(candidates, recommendations.map[key])
            IN IF ~HasKey(parties, candidate.party_id)
               THEN Some([title |-> candidate.title, party |-> "Unknown"])
               ELSE Some([title |-> candidate.title,
                          party |-> ValueAt(parties, candidate.party_id)])

C2_VotesmartResolution ==
    /\ \A c \in Ids, d \in Ids : get_votesmart_result(c, d) = Resolved(c, d)
    /\ last.op = "get_votesmart" =>
          (last.err = NoError /\ \E c \in Ids, d \in Ids : last.ret = Resolved(c, d))

(* A call that resolved a recommendation to its candidate and party.       *)
C2_Witness ==
    /\ last.op = "get_votesmart"
    /\ last.ret # None
    /\ last.ret[1].party \in Titles

----------------------------------------------------------------------------
(* C3: a list accessor returns the pairs at the positions from_index ..    *)
(* min(count, limit) - 1 of the table's insertion order, in that order     *)
(* (from_index defaults to 0, limit to the count and is an exclusive upper *)
(* index, not a number of items); the length is min(count, limit) -        *)
(* from_index when that is not negative and 0 otherwise, so a from_index   *)
(* beyond the table gives the empty sequence.                              *)
IsPage(page, m, from_index, limit) ==
    LET count == Len(m.keys)
        lo == IF from_index = None THEN 0 ELSE from_index[1]
        hi == Min(count, IF limit = None THEN count ELSE limit[1])
    IN /\ Len(page) = IF hi - lo >= 0 THEN hi - lo ELSE 0
       /\ \A i \in 1..Len(page) : page[i] = <<m.keys[lo + i], m.values[lo + i]>>

IsSomePage(page, m) ==
    \E from_index \in OptIndex, limit \in OptIndex : IsPage(page, m, from_index, limit)

C3_Pagination ==
    /\ \A f \in OptIndex, l \in OptIndex :
          /\ IsPage(get_campaigns_result(f, l), campaigns, f, l)
          /\ IsPage(get_parties_result(f, l), parties, f, l)
          /\ IsPage(get_regions_result(f, l), regions, f, l)
          /\ IsPage(get_districts_result(f, l), districts, f, l)
          /\ IsPage(get_candidates_result(f, l), candidates, f, l)
    /\ last.op \in ListOps => last.err = NoError
    /\ last.op = "get_campaigns" => IsSomePage(last.ret, campaigns)
    /\ last.op = "get_parties" => IsSomePage(last.ret, parties)
    /\ last.op = "get_regions" => IsSomePage(last.ret, regions)
    /\ last.op = "get_districts" => IsSomePage(last.ret, districts)
    /\ last.op = "get_candidates" => IsSomePage(last.ret, candidates)

(* A page that is the second of two stored parties alone.                  *)
C3_Witness ==
    /\ last.op = "get_parties"
    /\ Len(parties.keys) = 2
    /\ last.ret = <<<<parties.keys[2], parties.values[2]>>>>

----------------------------------------------------------------------------
(* C4: get_districts_by_region returns the pairs of get_districts with the *)
(* same from_index and limit whose district has the region_id, in the same *)
(* order: the window is taken on the whole table, the filter afterwards.   *)
FilterRegion(page, region_id) ==
    LET InRegion(pair) == pair[2].region_id = region_id
    IN SelectSeq(page, InRegion)

C4_WindowThenFilter ==
    /\ \A r \in Ids, f \in OptIndex, l \in OptIndex :
          get_districts_by_region_result(r, f, l)
             = FilterRegion(get_districts_result(f, l), r)
    /\ last.op = "get_districts_by_region" =>
          /\ last.err = NoError
          /\ \E r \in Ids, f \in OptIndex, l \in OptIndex :
                last.ret = FilterRegion(get_districts_result(f, l), r)

(* Two districts of one region, and a page with only the first: the other  *)
(* lies outside the window.                                                *)
C4_Witness ==
    /\ last.op = "get_districts_by_region"
    /\ Len(districts.keys) = 2
    /\ districts.values[1].region_id = districts.values[2].region_id
    /\ last.ret = <<<<districts.keys[1], districts.values[1]>>>>

----------------------------------------------------------------------------
(* C5: last write wins.  When the master account adds a batch that carries *)
(* the same id twice, or adds an id that an earlier call stored, a lookup  *)
(* of the id gives the value of the later insert and the table lists the   *)
(* id once; likewise for a (campaign_id, district_id) pair of the          *)
(* recommendations.                                                        *)
SecondInsertWins(prefix, id, v2) ==
    /\ UnorderedMap_get(storage'[prefix], id) = Some(v2)
    /\ Count(storage'[prefix].keys, id) = 1
    /\ ValueAt(storage'[prefix], id) = v2
    /\ HasKey(storage[prefix], id) => Len(storage'[prefix].keys) = Len(storage[prefix].keys)

C5_add_parties ==
    (last'.op = "add_parties" /\ last'.err = NoError) =>
        \A id \in Ids : \A v1 \in Titles, v2 \in Titles :
            /\ add_parties(last'.caller, <<<<id, v1>>, <<id, v2>>>>)
                  => SecondInsertWins(StorageKey_Parties, id, v2)
            /\ (HasKey(storage[StorageKey_Parties], id) /\ add_parties(last'.caller, <<<<id, v2>>>>))
                  => SecondInsertWins(StorageKey_Parties, id, v2)

C5_add_regions ==
    (last'.op = "add_regions" /\ last'.err = NoError) =>
        \A id \in Ids : \A v1 \in Region, v2 \in Region :
            /\ add_regions(last'.caller, <<<<id, v1>>, <<id, v2>>>>)
                  => SecondInsertWins(StorageKey_Regions, id, v2)
            /\ (HasKey(storage[StorageKey_Regions], id) /\ add_regions(last'.caller, <<<<id, v2>>>>))
                  => SecondInsertWins(StorageKey_Regions, id, v2)

C5_add_districts ==
    (last'.op = "add_districts" /\ last'.err = NoError) =>
        \A id \in Ids : \A v1 \in District, v2 \in District :
            /\ add_districts(last'.caller, <<<<id, v1>>, <<id, v2>>>>)
                  => SecondInsertWins(StorageKey_Districts, id, v2)
            /\ (HasKey(storage[StorageKey_Districts], id) /\ add_districts(last'.caller, <<<<id, v2>>>>))
                  => SecondInsertWins(StorageKey_Districts, id, v2)

C5_add_candidates ==
    (last'.op = "add_candidates" /\ last'.err = NoError) =>
        \A id \in Ids : \A v1 \in Candidate, v2 \in Candidate :
            /\ add_candidates(last'.caller, <<<<id, v1>>, <<id, v2>>>>)
                  => SecondInsertWins(StorageKey_Candidates, id, v2)
            /\ (HasKey(storage[StorageKey_Candidates], id) /\ add_candidates(last'.caller, <<<<id, v2>>>>))
                  => SecondInsertWins(StorageKey_Candidates, id, v2)

C5_LastWriteWins ==
    [][/\ C5_add_parties
       /\ C5_add_regions
       /\ C5_add_districts
       /\ C5_add_candidates
       /\ (last'.op = "add_campaign" /\ last'.err = NoError) =>
             \A id \in Ids, title \in Titles :
                 (HasKey(campaigns, id) /\ add_campaign(last'.caller, id, title))
                    => SecondInsertWins(StorageKey_Campaigns, id, title)
       /\ (last'.op = "add_recommendations" /\ last'.err = NoError) =>
             \A key \in RecommendationIndex : \A c1 \in Ids, c2 \in Ids :
                 LET e1 == <<key.campaign_id, key.district_id, c1>>
                     e2 == <<key.campaign_id, key.district_id, c2>>
                     SecondWins ==
                        /\ LookupMap_get(recommendations', key) = Some(c2)
                        /\ Cardinality(DOMAIN recommendations'.map)
                              = Cardinality(DOMAIN recommendations.map \cup {key})
                 IN /\ add_recommendations(last'.caller, <<e1, e2>>) => SecondWins
                    /\ (key \in DOMAIN recommendations.map
                        /\ add_recommendations(last'.caller, <<e2>>)) => SecondWins]_vars

(* A party stored as "A" and then overwritten: one entry, the later value. *)
C5_Witness ==
    /\ last.op = "add_parties"
    /\ last.err = NoError
    /\ parties.keys = <<1>>
    /\ parties.values = <<"B">>
    /\ Len(candidates.keys) = 1

----------------------------------------------------------------------------
(* C6: the master account changes only in a set_master_account_id call     *)
(* made by the account that was master before the call; no add_* call and  *)
(* no read changes it.                                                     *)
C6_MasterChangesOnlyByMaster ==
    [][master_account_id' # master_account_id
        => /\ last'.op = "set_master_account_id"
           /\ last'.caller = master_account_id
           /\ last'.err = NoError]_vars

(* The master account handed the role to another account.                  *)
C6_Witness ==
    /\ last.op = "set_master_account_id"
    /\ last.err = NoError
    /\ last.caller # master_account_id

----------------------------------------------------------------------------
(* C7: no call removes an entry: the ids stored in each table after a step *)
(* include those stored before it, the count does not decrease, and a pair *)
(* of the recommendations stays.                                           *)
C7_NothingRemoved ==
    [][storage' # storage
        => /\ \A prefix \in UnorderedMapPrefixes :
                /\ KeySet(storage[prefix]) \subseteq KeySet(storage'[prefix])
                /\ DOMAIN storage[prefix].index \subseteq DOMAIN storage'[prefix].index
                /\ Len(storage[prefix].keys) <= Len(storage'[prefix].keys)
           /\ DOMAIN recommendations.map \subseteq DOMAIN recommendations'.map]_vars

(* An add to a table that already held an entry.                           *)
C7_Witness ==
    /\ last.op = "add_candidates"
    /\ last.err = NoError
    /\ Len(candidates.keys) = 2

----------------------------------------------------------------------------
(* C8: in every table the keys and the values have the same length, no id  *)
(* occurs twice among the keys, the full listing (no from_index, no limit) *)
(* has each stored id exactly once, and the value listed with an id is the *)
(* value a lookup of the id returns.                                       *)
C8_TableWellFormed ==
    \A prefix \in UnorderedMapPrefixes :
        LET m == storage[prefix]
            listing == unordered_map_pagination(m, None, None)
        IN /\ Len(m.keys) = Len(m.values)
           /\ \A i \in 1..Len(m.keys), j \in 1..Len(m.keys) : m.keys[i] = m.keys[j] => i = j
           /\ Len(listing) = Cardinality(DOMAIN m.index)
           /\ \A id \in DOMAIN m.index :
                 Cardinality({i \in 1..Len(listing) : listing[i][1] = id}) = 1
           /\ \A i \in 1..Len(listing) :
                 UnorderedMap_get(m, listing[i][1]) = Some(listing[i][2])

(* A table of two ids, one of them written twice or both at once.          *)
C8_Witness ==
    /\ last.op = "add_regions"
    /\ last.err = NoError
    /\ Len(regions.keys) = 2
    /\ regions.keys[1] = 2

----------------------------------------------------------------------------
(* C9: a read returns for every caller, the master account or not, and     *)
(* leaves the master account and the whole storage as they were.           *)
C9_ReadsOpenAndPure ==
    [][last'.op \in ReadOps
        => /\ last'.err = NoError
           /\ master_account_id' = master_account_id
           /\ storage' = storage]_vars

(* A recommendation read by an account that is not the master account.     *)
C9_Witness ==
    /\ last.op = "get_votesmart"
    /\ last.err = NoError
    /\ last.caller # master_account_id
    /\ TotalEntries(storage) > 0

----------------------------------------------------------------------------
(* C10: an add_* call that returns changes its own collection only: every  *)
(* other table, the recommendations and the master account are as before,  *)
(* so the entry (or absence) of the same numeric id elsewhere is too.      *)
C10_OwnTableOnly ==
    [][(last'.op \in MutatingOps /\ last'.op # "set_master_account_id"
        /\ last'.err = NoError)
        => /\ master_account_id' = master_account_id
           /\ last'.op # "add_parties" => parties' = parties
           /\ last'.op # "add_campaign" => campaigns' = campaigns
           /\ last'.op # "add_regions" => regions' = regions
           /\ last'.op # "add_districts" => districts' = districts
           /\ last'.op # "add_candidates" => candidates' = candidates
           /\ last'.op # "add_recommendations" => recommendations' = recommendations]_vars

(* The same numeric id stored in two tables, the candidate added last.     *)
C10_Witness ==
    /\ last.op = "add_candidates"
    /\ last.err = NoError
    /\ \E n \in Ids : HasKey(parties, n) /\ HasKey(candidates, n)

----------------------------------------------------------------------------
(* C11: references are not checked when written.  An add_* call by the      *)
(* master account returns without error and afterwards every id of its     *)
(* batch is stored with the value of its last occurrence in the batch,     *)
(* whether or not the region of a district, the party of a candidate, or   *)
(* the campaign, district and candidate of a recommendation are stored.    *)
AddOps ==
    {"add_campaign", "add_parties", "add_regions", "add_districts", "add_candidates",
     "add_recommendations"}

IsLast(batch, i) == \A j \in (i + 1)..Len(batch) : batch[j][1] # batch[i][1]

Stored(m, batch) ==
    \A i \in 1..Len(batch) :
        /\ HasKey(m, batch[i][1])
        /\ IsLast(batch, i) => UnorderedMap_get(m, batch[i][1]) = Some(batch[i][2])

StoredRecommendations(m, batch) ==
    \A i \in 1..Len(batch) :
        LET key == [campaign_id |-> batch[i][1], district_id |-> batch[i][2]]
        IN /\ key \in DOMAIN m.map
           /\ (\A j \in (i + 1)..Len(batch) : <<batch[j][1], batch[j][2]>> # <<batch[i][1], batch[i][2]>>)
                 => LookupMap_get(m, key) = Some(batch[i][3])

C11_NoReferentialIntegrity ==
    [][(last'.op \in AddOps /\ last'.caller = master_account_id)
        => /\ last'.err = NoError
           /\ last'.op = "add_districts" =>
                 \A batch \in Vec(Ids \X District) :
                     add_districts(last'.caller, batch) => Stored(districts', batch)
           /\ last'.op = "add_candidates" =>
                 \A batch \in Vec(Ids \X Candidate) :
                     add_candidates(last'.caller, batch) => Stored(candidates', batch)
           /\ last'.op = "add_recommendations" =>
                 \A batch \in Vec(Ids \X Ids \X Ids) :
                     add_recommendations(last'.caller, batch)
                        => StoredRecommendations(recommendations', batch)]_vars

(* A district of a region that is not stored, and a recommendation whose   *)
(* campaign and candidate are not stored, both accepted.                   *)
C11_Witness ==
    /\ last.op = "add_recommendations"
    /\ last.err = NoError
    /\ \E i \in 1..Len(districts.keys) : ~HasKey(regions, districts.values[i].region_id)
    /\ \E key \in DOMAIN recommendations.map :
          /\ ~HasKey(campaigns, key.campaign_id)
          /\ ~HasKey(candidates, recommendations.map[key])

----------------------------------------------------------------------------
(* C12: get_votesmart is computed from the state at the time of the call.   *)
(* The value a get_votesmart call returns is the join of the               *)
(* recommendations, candidates and parties as they are at that call.  Once *)
(* the master account adds the candidate a recommendation names, the pair  *)
(* resolves to that candidate (with its party's title, or "Unknown"); once *)
(* it adds the party of a resolved candidate, the pair resolves to that    *)
(* party's title; and a candidate, a party or a recommendation written     *)
(* again changes the result of the pair to the newly written data.         *)
PartyTitle(party_id) == unwrap_or(UnorderedMap_get(parties, party_id), "Unknown")

C12_ResolvedFromCurrentState ==
    [][/\ last'.op = "get_votesmart" =>
             \E c \in Ids, d \in Ids :
                 /\ last'.ret = get_votesmart_result(c, d)'
                 /\ last'.ret = Resolved(c, d)
       /\ (last'.op = "add_candidates" /\ last'.err = NoError) =>
             \A key \in RecommendationIndex, id \in Ids, v \in Candidate :
                 (/\ LookupMap_get(recommendations, key) = Some(id)
                  /\ add_candidates(last'.caller, <<<<id, v>>>>))
                    => get_votesmart_result(key.campaign_id, key.district_id)'
                          = Some([title |-> v.title, party |-> PartyTitle(v.party_id)])
       /\ (last'.op = "add_parties" /\ last'.err = NoError) =>
             \A key \in RecommendationIndex, id \in Ids, title \in Titles :
                 LET before == get_votesmart_result(key.campaign_id, key.district_id)
                 IN (/\ before # None
                     /\ ValueAt(candidates, recommendations.map[key]).party_id = id
                     /\ add_parties(last'.caller, <<<<id, title>>>>))
                       => get_votesmart_result(key.campaign_id, key.district_id)'
                             = Some([title |-> before[1].title, party |-> title])
       /\ (last'.op = "add_recommendations" /\ last'.err = NoError) =>
             \A key \in RecommendationIndex, id \in Ids :
                 add_recommendations(last'.caller,
                                     <<<<key.campaign_id, key.district_id, id>>>>)
                    => get_votesmart_result(key.campaign_id, key.district_id)'
                          = IF HasKey(candidates, id)
                            THEN Some([title |-> ValueAt(candidates, id).title,
                                       party |-> PartyTitle(ValueAt(candidates, id).party_id)])
                            ELSE None]_vars

(* A party written after the recommendation and the candidate that need    *)
(* it: the pair now resolves to the party's title.                         *)
C12_Witness ==
    /\ last.op = "add_parties"
    /\ last.err = NoError
    /\ Len(parties.keys) = 1
    /\ \E c \in Ids, d \in Ids :
          /\ get_votesmart_result(c, d) # None
          /\ get_votesmart_result(c, d)[1].party = parties.values[1]

----------------------------------------------------------------------------
(* The orders in which the entries of a batch can be applied.              *)
Reorderings(batch) ==
    LET n == Len(batch)
        Bijections == {p \in [1..n -> 1..n] : \A i \in 1..n, j \in 1..n : p[i] = p[j] => i = j}
    IN {[i \in 1..n |-> batch[p[i]]] : p \in Bijections}

(* Two tables that store the same ids with the same values, whatever the   *)
(* positions at which they list them.                                      *)
SameMapping(m1, m2) ==
    /\ KeySet(m1) = KeySet(m2)
    /\ Len(m1.keys) = Len(m2.keys)
    /\ \A id \in Ids : UnorderedMap_get(m1, id) = UnorderedMap_get(m2, id)

DistinctIds(batch) ==
    \A i \in 1..Len(batch), j \in 1..Len(batch) : batch[i][1] = batch[j][1] => i = j

DistinctPairs(batch) ==
    \A i \in 1..Len(batch), j \in 1..Len(batch) :
        <<batch[i][1], batch[i][2]>> = <<batch[j][1], batch[j][2]>> => i = j

(* The ids of the batch that m does not store, each at its first           *)
(* occurrence, in the order of the batch.                                  *)
NewIds(m, batch) ==
    LET First(i) == /\ ~HasKey(m, batch[i][1])
                    /\ \A j \in 1..(i - 1) : batch[j][1] # batch[i][1]
        positions == SelectSeq([i \in 1..Len(batch) |-> i], First)
    IN [k \in 1..Len(positions) |-> batch[positions[k]][1]]

(* C13, as stated: the entries of the batch of a bulk add, applied in any   *)
(* order, give the table the call gives (compared as the stored ids with   *)
(* their values; for the recommendations, as the stored pairs with their   *)
(* candidates).                                                            *)
AnyOrder(m, after, batch) ==
    \A perm \in Reorderings(batch) : SameMapping(InsertEach(m, perm), after)

AnyOrderRecommendations(m, after, batch) ==
    \A perm \in Reorderings(batch) : InsertEachRecommendation(m, perm) = after

C13_OrderIndependent ==
    [][/\ (last'.op = "add_parties" /\ last'.err = NoError) =>
             \A batch \in Vec(Ids \X Titles) :
                 add_parties(last'.caller, batch) => AnyOrder(parties, parties', batch)
       /\ (last'.op = "add_regions" /\ last'.err = NoError) =>
             \A batch \in Vec(Ids \X Region) :
                 add_regions(last'.caller, batch) => AnyOrder(regions, regions', batch)
       /\ (last'.op = "add_districts" /\ last'.err = NoError) =>
             \A batch \in Vec(Ids \X District) :
                 add_districts(last'.caller, batch) => AnyOrder(districts, districts', batch)
       /\ (last'.op = "add_candidates" /\ last'.err = NoError) =>
             \A batch \in Vec(Ids \X Candidate) :
                 add_candidates(last'.caller, batch)
                    => AnyOrder(candidates, candidates', batch)
       /\ (last'.op = "add_recommendations" /\ last'.err = NoError) =>
             \A batch \in Vec(Ids \X Ids \X Ids) :
                 add_recommendations(last'.caller, batch)
                    => AnyOrderRecommendations(recommendations, recommendations', batch)]_vars

(* C13, amended: the entries of a batch whose ids are pairwise distinct     *)
(* (for the recommendations: whose pairs are), applied in any order, give  *)
(* the same stored ids with the same values as the call.  The order of the *)
(* batch shows in two ways only: the table lists the ids it did not store  *)
(* after the ids it stored, in the order of their first occurrence in the  *)
(* batch, and an id the batch carries twice gets the value of its last     *)
(* occurrence.                                                             *)
AnyOrderOfDistinct(m, after, batch) ==
    /\ DistinctIds(batch) => AnyOrder(m, after, batch)
    /\ after.keys = m.keys \o NewIds(m, batch)
    /\ Stored(after, batch)

C13_OrderIndependentForDistinctIds ==
    [][/\ (last'.op = "add_parties" /\ last'.err = NoError) =>
             \A batch \in Vec(Ids \X Titles) :
                 add_parties(last'.caller, batch)
                    => AnyOrderOfDistinct(parties, parties', batch)
       /\ (last'.op = "add_regions" /\ last'.err = NoError) =>
             \A batch \in Vec(Ids \X Region) :
                 add_regions(last'.caller, batch)
                    => AnyOrderOfDistinct(regions, regions', batch)
       /\ (last'.op = "add_districts" /\ last'.err = NoError) =>
             \A batch \in Vec(Ids \X District) :
                 add_districts(last'.caller, batch)
                    => AnyOrderOfDistinct(districts, districts', batch)
       /\ (last'.op = "add_candidates" /\ last'.err = NoError) =>
             \A batch \in Vec(Ids \X Candidate) :
                 add_candidates(last'.caller, batch)
                    => AnyOrderOfDistinct(candidates, candidates', batch)
       /\ (last'.op = "add_recommendations" /\ last'.err = NoError) =>
             \A batch \in Vec(Ids \X Ids \X Ids) :
                 add_recommendations(last'.caller, batch)
                    => /\ DistinctPairs(batch) =>
                             AnyOrderRecommendations(recommendations, recommendations', batch)
                       /\ StoredRecommendations(recommendations', batch)]_vars

(* Two districts added to the empty table, the district 2 before the       *)
(* district 1: the table lists them in that order.                         *)
C13_Witness ==
    /\ last.op = "add_districts"
    /\ last.err = NoError
    /\ districts.keys = <<2, 1>>
    /\ districts.values[1] # districts.values[2]

----------------------------------------------------------------------------
(* C14: pagination is idempotent.  Two calls of a list accessor or of      *)
(* get_districts_by_region with the same arguments return the same         *)
(* sequence when only reads and rejected mutating calls lie between them:  *)
(* such a step leaves every table as it was, and in every state the value  *)
(* an accessor returns for given arguments is determined by the table and  *)
(* the arguments alone, not by the caller or by the calls made before.     *)
TablesUnchanged ==
    \A prefix \in UnorderedMapPrefixes :
        /\ storage'[prefix].keys = storage[prefix].keys
        /\ storage'[prefix].values = storage[prefix].values

DeterminedByTable ==
    \A f \in OptIndex, l \in OptIndex :
        /\ IsPage(get_campaigns_result(f, l), campaigns, f, l)
        /\ IsPage(get_parties_result(f, l), parties, f, l)
        /\ IsPage(get_regions_result(f, l), regions, f, l)
        /\ IsPage(get_districts_result(f, l), districts, f, l)
        /\ IsPage(get_candidates_result(f, l), candidates, f, l)
        /\ \A r \in Ids :
              \E page \in {get_districts_result(f, l)} :
                  /\ IsPage(page, districts, f, l)
                  /\ get_districts_by_region_result(r, f, l) = FilterRegion(page, r)

ReturnsResult ==
    /\ last.op = "get_campaigns" =>
          \E f \in OptIndex, l \in OptIndex : last.ret = get_campaigns_result(f, l)
    /\ last.op = "get_parties" =>
          \E f \in OptIndex, l \in OptIndex : last.ret = get_parties_result(f, l)
    /\ last.op = "get_regions" =>
          \E f \in OptIndex, l \in OptIndex : last.ret = get_regions_result(f, l)
    /\ last.op = "get_districts" =>
          \E f \in OptIndex, l \in OptIndex : last.ret = get_districts_result(f, l)
    /\ last.op = "get_candidates" =>
          \E f \in OptIndex, l \in OptIndex : last.ret = get_candidates_result(f, l)
    /\ last.op = "get_districts_by_region" =>
          \E r \in Ids, f \in OptIndex, l \in OptIndex :
              last.ret = get_districts_by_region_result(r, f, l)

C14_PaginationIdempotent ==
    /\ [](DeterminedByTable /\ ReturnsResult)
    /\ [][(last'.op \in ReadOps \/ last'.err = Unauthorized) => TablesUnchanged]_vars

(* A rejected add_districts after which the districts of a region are      *)
(* listed: the page holds the district stored before the rejected call.    *)
C14_Witness ==
    /\ last.op = "add_districts"
    /\ last.err = Unauthorized
    /\ Len(districts.keys) = 2
    /\ \E r \in Ids : Len(get_districts_by_region_result(r, None, None)) = 1

----------------------------------------------------------------------------
(* C15: after the construction the master account is the admin_id argument  *)
(* when it is given and the creating account otherwise, the five tables    *)
(* and the recommendations are empty, every list accessor and              *)
(* get_districts_by_region return the empty sequence for all arguments,    *)
(* and get_votesmart returns nothing for every pair.                       *)
Empty ==
    /\ \A prefix \in UnorderedMapPrefixes :
          /\ Len(storage[prefix].keys) = 0
          /\ Len(storage[prefix].values) = 0
          /\ DOMAIN storage[prefix].index = {}
    /\ DOMAIN recommendations.map = {}
    /\ \A f \in OptIndex, l \in OptIndex :
          /\ get_campaigns_result(f, l) = <<>>
          /\ get_parties_result(f, l) = <<>>
          /\ get_regions_result(f, l) = <<>>
          /\ get_districts_result(f, l) = <<>>
          /\ get_candidates_result(f, l) = <<>>
          /\ \A r \in Ids : get_districts_by_region_result(r, f, l) = <<>>
    /\ \A c \in Ids, d \in Ids : get_votesmart_result(c, d) = None

C15_AfterInitialization ==
    last.op = "new" =>
        /\ last.err = NoError
        /\ Empty
        /\ \A predecessor \in Accounts :
              /\ new(predecessor, None) => master_account_id = predecessor
              /\ \A admin \in Accounts :
                    new(predecessor, Some(admin)) => master_account_id = admin

(* A contract created by one account with another as its admin.            *)
C15_Witness ==
    /\ last.op = "new"
    /\ last.caller # master_account_id
    /\ TotalEntries(storage) = 0

----------------------------------------------------------------------------
(* C16: a set_master_account_id call by the master account makes its        *)
(* argument the master account, whatever the argument is.  After it the    *)
(* new master account passes the guard and, when it is another account,    *)
(* the previous master account does not; every mutating call made from     *)
(* then on returns for the master account of its time and fails with       *)
(* Unauthorized for any other caller.  In every state exactly one account  *)
(* passes the guard.                                                       *)
PassingGuard == {account \in Accounts : assert_access(account)}

C16_MasterReplaced ==
    /\ [](Cardinality(PassingGuard) = 1)
    /\ [][/\ (last'.op = "set_master_account_id" /\ last'.caller = master_account_id) =>
                /\ last'.err = NoError
                /\ storage' = storage
                /\ \A new_admin \in Accounts :
                      set_master_account_id(last'.caller, new_admin) =>
                         /\ master_account_id' = new_admin
                         /\ PassingGuard' = {new_admin}
                         /\ (new_admin # master_account_id
                               => master_account_id \notin PassingGuard')
          /\ last'.op \in MutatingOps =>
                last'.err = IF last'.caller \in PassingGuard THEN NoError ELSE Unauthorized]_vars

(* The master account of a registry that holds entries handed the role to  *)
(* another account.                                                        *)
C16_Witness ==
    /\ last.op = "set_master_account_id"
    /\ last.err = NoError
    /\ PassingGuard = Accounts \ {last.caller}
    /\ TotalEntries(storage) > 0

----------------------------------------------------------------------------
(* C17: positions are stable.  Inserting an id that a table does not store  *)
(* appends it after the last position and raises the count by one;         *)
(* inserting a stored id leaves the ids and the count as they were and     *)
(* changes the value at the position of the id alone.  So in every step    *)
(* each stored id keeps its position, in the vectors, in the index and in  *)
(* the listing that pagination returns.                                    *)
InsertedAt(m, after, id, v) ==
    IF HasKey(m, id)
    THEN /\ after.keys = m.keys
         /\ after.index = m.index
         /\ Len(after.values) = Len(m.values)
         /\ \A i \in 1..Len(m.keys) :
               after.values[i] = IF m.keys[i] = id THEN v ELSE m.values[i]
    ELSE /\ after.keys = Append(m.keys, id)
         /\ after.values = Append(m.values, v)
         /\ Len(after.keys) = Len(m.keys) + 1
         /\ after.index[id] = Len(m.keys)
         /\ \A other \in DOMAIN m.index : after.index[other] = m.index[other]

PositionsKept(m, after) ==
    /\ \A i \in 1..Len(m.keys) : after.keys[i] = m.keys[i]
    /\ \A id \in DOMAIN m.index : after.index[id] = m.index[id]
    /\ \A i \in 1..Len(m.keys) :
          unordered_map_pagination(after, Some(i - 1), Some(i))[1][1]
             = unordered_map_pagination(m, Some(i - 1), Some(i))[1][1]

C17_PositionsStable ==
    [][/\ storage' # storage =>
             \A prefix \in UnorderedMapPrefixes :
                 PositionsKept(storage[prefix], storage'[prefix])
       /\ (last'.op = "add_campaign" /\ last'.err = NoError) =>
             \A id \in Ids, title \in Titles :
                 add_campaign(last'.caller, id, title)
                    => InsertedAt(campaigns, campaigns', id, title)
       /\ (last'.op = "add_parties" /\ last'.err = NoError) =>
             \A id \in Ids, title \in Titles :
                 add_parties(last'.caller, <<<<id, title>>>>)
                    => InsertedAt(parties, parties', id, title)
       /\ (last'.op = "add_regions" /\ last'.err = NoError) =>
             \A id \in Ids, region \in Region :
                 add_regions(last'.caller, <<<<id, region>>>>)
                    => InsertedAt(regions, regions', id, region)
       /\ (last'.op = "add_districts" /\ last'.err = NoError) =>
             \A id \in Ids, district \in District :
                 add_districts(last'.caller, <<<<id, district>>>>)
                    => InsertedAt(districts, districts', id, district)
       /\ (last'.op = "add_candidates" /\ last'.err = NoError) =>
             \A id \in Ids, candidate \in Candidate :
                 add_candidates(last'.caller, <<<<id, candidate>>>>)
                    => InsertedAt(candidates, candidates', id, candidate)]_vars

(* A campaign inserted into a table of two: either the campaign 2 was      *)
(* appended after the campaign 1, or one of the two was written again and  *)
(* stayed where it was.                                                    *)
C17_Witness ==
    /\ last.op = "add_campaign"
    /\ last.err = NoError
    /\ campaigns.keys = <<1, 2>>
    /\ campaigns.values[1] # campaigns.values[2]

----------------------------------------------------------------------------
(* C18: adjacent windows compose.  In every state, for every list accessor  *)
(* and for get_districts_by_region with a fixed region_id, and for all     *)
(* a <= b <= c, the page from a to the limit b followed by the page from b *)
(* to the limit c is the page from a to the limit c: no entry is returned  *)
(* twice and none is skipped.  With the defaults, the page up to b         *)
(* followed by the page from b on is the full listing.                     *)
Indexes == 0..MaxIndex

C18_AdjacentWindowsCompose ==
    /\ \A a \in Indexes, b \in Indexes, c \in Indexes :
          (a <= b /\ b <= c) =>
             /\ get_campaigns_result(Some(a), Some(b)) \o get_campaigns_result(Some(b), Some(c))
                   = get_campaigns_result(Some(a), Some(c))
             /\ get_parties_result(Some(a), Some(b)) \o get_parties_result(Some(b), Some(c))
                   = get_parties_result(Some(a), Some(c))
             /\ get_regions_result(Some(a), Some(b)) \o get_regions_result(Some(b), Some(c))
                   = get_regions_result(Some(a), Some(c))
             /\ get_districts_result(Some(a), Some(b)) \o get_districts_result(Some(b), Some(c))
                   = get_districts_result(Some(a), Some(c))
             /\ get_candidates_result(Some(a), Some(b)) \o get_candidates_result(Some(b), Some(c))
                   = get_candidates_result(Some(a), Some(c))
             /\ \A r \in Ids :
                   get_districts_by_region_result(r, Some(a), Some(b))
                         \o get_districts_by_region_result(r, Some(b), Some(c))
                      = get_districts_by_region_result(r, Some(a), Some(c))
    /\ \A b \in Indexes :
          /\ get_campaigns_result(None, Some(b)) \o get_campaigns_result(Some(b), None)
                = get_campaigns_result(None, None)
          /\ get_parties_result(None, Some(b)) \o get_parties_result(Some(b), None)
                = get_parties_result(None, None)
          /\ get_regions_result(None, Some(b)) \o get_regions_result(Some(b), None)
                = get_regions_result(None, None)
          /\ get_districts_result(None, Some(b)) \o get_districts_result(Some(b), None)
                = get_districts_result(None, None)
          /\ get_candidates_result(None, Some(b)) \o get_candidates_result(Some(b), None)
                = get_candidates_result(None, None)
          /\ \A r \in Ids :
                get_districts_by_region_result(r, None, Some(b))
                      \o get_districts_by_region_result(r, Some(b), None)
                   = get_districts_by_region_result(r, None, None)

(* The second of two candidates read as the page from 1 to the limit 2:    *)
(* after the page from 0 to the limit 1 it completes the listing.          *)
C18_Witness ==
    /\ last.op = "get_candidates"
    /\ Len(candidates.keys) = 2
    /\ last.ret = get_candidates_result(Some(1), Some(2))
    /\ Len(last.ret) = 1
    /\ get_candidates_result(Some(0), Some(1)) \o last.ret = get_candidates_result(None, None)

----------------------------------------------------------------------------
(* C19: get_votesmart(c, d) depends on the recommendation of exactly the    *)
(* ordered pair (c, d), on the candidates and on the parties, and on       *)
(* nothing else.  In every state the result is a function of these three   *)
(* alone, so two states that agree on them give the same result, whoever   *)
(* calls and whatever the campaigns, regions and districts hold; a step    *)
(* that leaves the three as they were leaves the result as it was; and a   *)
(* recommendation added for (c, d) leaves the result of every other pair,  *)
(* (d, c) included, as it was.                                             *)
Join(candidate_id, cands, parts) ==
    IF candidate_id = None \/ ~HasKey(cands, candidate_id[1])
    THEN None
    ELSE LET candidate == ValueAt(cands, candidate_id[1])
         IN Some([title |-> candidate.title,
                  party |-> IF HasKey(parts, candidate.party_id)
                            THEN ValueAt(parts, candidate.party_id)
                            ELSE "Unknown"])

JoinOfPair(key) == Join(LookupMap_get(recommendations, key), candidates, parties)

C19_DependsOnOwnPairOnly ==
    /\ [](/\ \A key \in RecommendationIndex :
                get_votesmart_result(key.campaign_id, key.district_id) = JoinOfPair(key)
          /\ last.op = "get_votesmart" =>
                \E key \in RecommendationIndex : last.ret = JoinOfPair(key))
    /\ [][/\ storage' # storage =>
                \A key \in RecommendationIndex :
                    (/\ LookupMap_get(recommendations', key)
                           = LookupMap_get(recommendations, key)
                     /\ candidates' = candidates
                     /\ parties' = parties)
                       => get_votesmart_result(key.campaign_id, key.district_id)'
                             = get_votesmart_result(key.campaign_id, key.district_id)
          /\ (last'.op = "add_recommendations" /\ last'.err = NoError) =>
                \A key \in RecommendationIndex, id \in Ids :
                    add_recommendations(last'.caller,
                                        <<<<key.campaign_id, key.district_id, id>>>>)
                       => \A other \in RecommendationIndex \ {key} :
                             get_votesmart_result(other.campaign_id, other.district_id)'
                                = get_votesmart_result(other.campaign_id, other.district_id)]_vars

(* A recommendation stored for the pair (1, 2) and none for (2, 1): the    *)
(* first resolves to its candidate, the second to nothing.                 *)
C19_Witness ==
    /\ last.op = "add_recommendations"
    /\ last.err = NoError
    /\ DOMAIN recommendations.map = {[campaign_id |-> 1, district_id |-> 2]}
    /\ get_votesmart_result(1, 2) # None
    /\ get_votesmart_result(2, 1) = None

====
